---- MODULE Spec2Model ----
(***************************************************************************)
(* Window manager of the desktop shell (src/app/components/desktop.tsx).   *)
(*                                                                         *)
(* The state is the React state of the Desktop component that the window   *)
(* manager reads and writes.  Each action is one DOM event with every      *)
(* handler that the event reaches, run to completion.  All handlers call   *)
(* setWindows with a value computed from the `windows` constant of their   *)
(* closure, so that inside one event the last setWindows call decides the  *)
(* next window list (LastWrite).                                           *)
(*                                                                         *)
(* Spec is the shell with every event.  Its state space is the product of  *)
(* the window list and the pointer gestures, so the properties are checked *)
(* under parts of it: SpecShell (dock, launcher and window buttons, two    *)
(* apps), SpecPointer (drag, resize, snap and maximize of the dock app's   *)
(* window), SpecResize (resize gestures only), SpecDock (drags of the      *)
(* dock), SpecLauncher (the launcher and its query) and SpecDesk (every    *)
(* kind of event, with the pointer at two positions).  SpecLogin is the    *)
(* login screen (src/app/components/login-screen.tsx).                     *)
(*                                                                         *)
(* Pixel coordinates are integers.  The viewports of the model have even   *)
(* width and even height, so that the halves computed by snapWindow with   *)
(* the floating point division of the source are exact integers.           *)
(***************************************************************************)
EXTENDS Integers, Sequences, FiniteSets, TLC

\* ------------------------------------------------------------------------
\* Program constants
TopBar        == 40
MinWidth      == 300
MinHeight     == 200
SnapMargin    == 50
DefaultWidth  == 900
DefaultHeight == 700

\* ------------------------------------------------------------------------
\* Bounds of the model
MaxClock == 1      \* Date.now() takes the values 0..MaxClock
MaxGestures == 1   \* mousedown events on windows and handles per behaviour
GrabOffset == 20   \* a title bar is grabbed GrabOffset px inside the window
\* the onLogin calls of one login screen that a behaviour follows
MaxLogins == 2

\* null of activeWindow / draggingWindow
Null == -1
\* null of Window.snapped
NoSnap == "none"
\* null of selectedUser (login-screen.tsx line 20)
NoUser == "none"

\* window.innerWidth / window.innerHeight, fixed during one behaviour
Viewports == { [w |-> 1920, h |-> 1080], [w |-> 500, h |-> 400] }
\* viewports that are narrower than a new window and taller than its place
NarrowViewports == { [w |-> 800, h |-> 1000], [w |-> 1000, h |-> 900] }

\* The catalog entries the model launches: Terminal is one of the six dock
\* apps, Mail is reachable through the launcher overlay only.
desktopApps == <<"Terminal", "Mail">>
dockApps    == <<"Terminal">>

\* handleDockDrag: `margin` (line 251) and the 64 added to it for the top
\* edge (line 254)
DockMargin    == 100
DockTopOffset == 64

\* Math.random() * 200 + 100 lies in [100, 300)
RandomOffsets == {150}

SnapZones == {"left-half", "right-half", "top-left", "top-right",
              "bottom-left", "bottom-right", "maximize"}
Handles   == {"right", "left", "bottom", "top", "bottom-right", "bottom-left",
              "top-right", "top-left"}

VARIABLES viewport, windows, activeWindow, searchOpen, showSnapZones,
          draggingWindow, dragRef, resizingWindow, resizeClosure, now, ev,
          gestures,
          \* the dock (lines 105-106) and the drag session that the motion
          \* element of the dock keeps between onDragStart and onDragEnd
          dockPosition, isDraggingDock, dockDrag,
          \* the query typed into the launcher overlay (line 97)
          searchQuery,
          \* the login screen (login-screen.tsx lines 17, 20) and the calls
          \* of its onLogin property, in the order they were made
          selectedUser, password, onLogin

vars == <<viewport, windows, activeWindow, searchOpen, showSnapZones,
          draggingWindow, dragRef, resizingWindow, resizeClosure, now, ev,
          gestures, dockPosition, isDraggingDock, dockDrag, searchQuery,
          selectedUser, password, onLogin>>

\* the window manager's part of the state, without the last event
shellVars == <<viewport, windows, activeWindow, searchOpen, showSnapZones,
               draggingWindow, dragRef, resizingWindow, resizeClosure, now,
               gestures>>
dockVars  == <<dockPosition, isDraggingDock, dockDrag>>
loginVars == <<selectedUser, password, onLogin>>

\* ------------------------------------------------------------------------
\* Helpers
Max(a, b) == IF a >= b THEN a ELSE b
Min(a, b) == IF a <= b THEN a ELSE b
\* n / 2 of the source, exact for the even sizes of the model
Half(n) == n \div 2
Map(s, F(_)) == [i \in DOMAIN s |-> F(s[i])]
Range(s) == {s[i] : i \in DOMAIN s}
\* windows.find(pred): index of the first match, 0 when there is none
FindFirst(s, P(_)) ==
  IF \E i \in DOMAIN s : P(s[i])
  THEN CHOOSE i \in DOMAIN s : P(s[i]) /\ \A j \in 1..(i - 1) : ~P(s[j])
  ELSE 0
\* the value of the last setWindows call of one event
LastWrite(writes, old) == IF writes = <<>> THEN old ELSE writes[Len(writes)]

\* the pointer positions of mousemove / mouseup events
PointerXs == {10, Half(viewport.w), viewport.w - 10}
PointerYs == {10, Half(viewport.h), viewport.h - 10}

NoDrag == [set |-> FALSE, windowId |-> Null, startX |-> 0, startY |-> 0]
NoResize == [set |-> FALSE, windowId |-> Null, handle |-> "none",
             startX |-> 0, startY |-> 0, startWidth |-> 0, startHeight |-> 0,
             startWindowX |-> 0, startWindowY |-> 0]

\* the last event, for the properties that speak about one operation
Ev(op, id, arg, x, y) == [op |-> op, id |-> id, arg |-> arg, x |-> x, y |-> y]


\* ------------------------------------------------------------------------
\* openApp (lines 368-395)

\* the new window of lines 378-391; its id is `window-${Date.now()}`
NewWindow(title, t, rx, ry) ==
  [id |-> t, title |-> title, x |-> rx, y |-> ry,
   width |-> DefaultWidth, height |-> DefaultHeight,
   minimized |-> FALSE, maximized |-> FALSE,
   snapped |-> NoSnap, isResizing |-> FALSE]

\* mutant: the lookup compares the window id with the app name, finds nothing
ExistingWindowById(ws, title) == FindFirst(ws, LAMBDA w : FALSE)

\* windows.find((w) => w.title === app.name)
ExistingWindow(ws, title) == FindFirst(ws, LAMBDA w : w.title = title)

\* mutant: raising a window also leaves the maximized state
UnminimizeAndRestore(ws, id) ==
  Map(ws, LAMBDA w :
    IF w.id = id THEN [w EXCEPT !.minimized = FALSE, !.maximized = FALSE]
    ELSE w)

Unminimize(ws, id) ==
  Map(ws, LAMBDA w : IF w.id = id THEN [w EXCEPT !.minimized = FALSE] ELSE w)

\* the whole of openApp: the next window list, active window and searchOpen
openApp(title, t, rx, ry) ==
  LET i == ExistingWindow(windows, title) IN
  IF i # 0
  THEN /\ windows' = IF windows[i].minimized
                     THEN Unminimize(windows, windows[i].id)
                     ELSE windows
       /\ activeWindow' = windows[i].id
       /\ UNCHANGED searchOpen
  ELSE /\ windows' = Append(windows, NewWindow(title, t, rx, ry))
       /\ activeWindow' = t
       /\ searchOpen' = FALSE

\* ------------------------------------------------------------------------
\* closeWindow, minimizeWindow, maximizeWindow (lines 397-424)
\* mutant: the filter keeps the closed window instead of the others
closeWindowInverted(ws, id) == SelectSeq(ws, LAMBDA w : w.id = id)

closeWindow(ws, id) == SelectSeq(ws, LAMBDA w : w.id # id)

minimizeWindow(ws, id) ==
  Map(ws, LAMBDA w : IF w.id = id THEN [w EXCEPT !.minimized = TRUE] ELSE w)

\* mutant: leaving the maximized state restores the size of a new window
maximizeWindowRestoresSize(ws, id) ==
  Map(ws, LAMBDA w :
    IF w.id = id
    THEN [w EXCEPT !.maximized = ~w.maximized,
                   !.x = IF w.maximized THEN w.x ELSE 0,
                   !.y = IF w.maximized THEN w.y ELSE TopBar,
                   !.width = IF w.maximized THEN DefaultWidth ELSE viewport.w,
                   !.height = IF w.maximized THEN DefaultHeight
                              ELSE viewport.h - TopBar,
                   !.snapped = NoSnap]
    ELSE w)

\* mutant: a maximized window is put at the top of the viewport, under the
\* top bar
maximizeWindowAtOrigin(ws, id) ==
  Map(ws, LAMBDA w :
    IF w.id = id
    THEN [w EXCEPT !.maximized = ~w.maximized,
                   !.x = IF w.maximized THEN w.x ELSE 0,
                   !.y = IF w.maximized THEN w.y ELSE 0,
                   !.width = IF w.maximized THEN w.width ELSE viewport.w,
                   !.height = IF w.maximized THEN w.height ELSE viewport.h,
                   !.snapped = NoSnap]
    ELSE w)

maximizeWindow(ws, id) ==
  Map(ws, LAMBDA w :
    IF w.id = id
    THEN [w EXCEPT !.maximized = ~w.maximized,
                   !.x = IF w.maximized THEN w.x ELSE 0,
                   !.y = IF w.maximized THEN w.y ELSE TopBar,
                   !.width = IF w.maximized THEN w.width ELSE viewport.w,
                   !.height = IF w.maximized THEN w.height
                              ELSE viewport.h - TopBar,
                   !.snapped = NoSnap]
    ELSE w)

\* ------------------------------------------------------------------------
\* snapWindow (lines 427-506)
\* mutant: the bottom quarters are put at the top bar like the top quarters
SnapTargetNoOffset(zone) ==
  LET screenWidth  == viewport.w
      screenHeight == viewport.h - TopBar
      half == zone \in {"left-half", "right-half"}
      full == zone = "maximize"
      right == zone \in {"right-half", "top-right", "bottom-right"}
  IN [x |-> IF right THEN Half(screenWidth) ELSE 0,
      y |-> TopBar,
      width |-> IF full THEN screenWidth ELSE Half(screenWidth),
      height |-> IF full \/ half THEN screenHeight ELSE Half(screenHeight),
      snapType |-> CASE zone = "left-half" -> "left"
                     [] zone = "right-half" -> "right"
                     [] zone = "maximize" -> NoSnap
                     [] OTHER -> zone]

SnapTarget(zone) ==
  LET screenWidth  == viewport.w
      screenHeight == viewport.h - TopBar
  IN CASE zone = "left-half" ->
            [x |-> 0, y |-> TopBar, width |-> Half(screenWidth),
             height |-> screenHeight, snapType |-> "left"]
       [] zone = "right-half" ->
            [x |-> Half(screenWidth), y |-> TopBar,
             width |-> Half(screenWidth), height |-> screenHeight,
             snapType |-> "right"]
       [] zone = "top-left" ->
            [x |-> 0, y |-> TopBar, width |-> Half(screenWidth),
             height |-> Half(screenHeight), snapType |-> "top-left"]
       [] zone = "top-right" ->
            [x |-> Half(screenWidth), y |-> TopBar,
             width |-> Half(screenWidth), height |-> Half(screenHeight),
             snapType |-> "top-right"]
       [] zone = "bottom-left" ->
            [x |-> 0, y |-> TopBar + Half(screenHeight),
             width |-> Half(screenWidth), height |-> Half(screenHeight),
             snapType |-> "bottom-left"]
       [] zone = "bottom-right" ->
            [x |-> Half(screenWidth), y |-> TopBar + Half(screenHeight),
             width |-> Half(screenWidth), height |-> Half(screenHeight),
             snapType |-> "bottom-right"]
       [] zone = "maximize" ->
            [x |-> 0, y |-> TopBar, width |-> screenWidth,
             height |-> screenHeight, snapType |-> NoSnap]

\* the window list handed to setWindows by snapWindow (lines 489-503)
snapWindow(ws, id, zone) ==
  LET g == SnapTarget(zone) IN
  Map(ws, LAMBDA w :
    IF w.id = id
    THEN [w EXCEPT !.x = g.x, !.y = g.y, !.width = g.width,
                   !.height = g.height,
                   !.maximized = (zone = "maximize"),
                   !.snapped = g.snapType]
    ELSE w)

\* ------------------------------------------------------------------------
\* handleWindowResize (lines 270-344)
\* mutant: the new size is not floored at 300 x 200
ResizedWindowNoFloor(w, rw, clientX, clientY) ==
  LET deltaX == clientX - rw.startX
      deltaY == clientY - rw.startY
      h == rw.handle
      growsRight == h \in {"right", "bottom-right", "top-right"}
      growsLeft  == h \in {"left", "bottom-left", "top-left"}
      growsDown  == h \in {"bottom", "bottom-right", "bottom-left"}
      growsUp    == h \in {"top", "top-right", "top-left"}
      newWidth  == IF growsRight THEN rw.startWidth + deltaX
                   ELSE IF growsLeft THEN rw.startWidth - deltaX
                        ELSE w.width
      newHeight == IF growsDown THEN rw.startHeight + deltaY
                   ELSE IF growsUp THEN rw.startHeight - deltaY
                        ELSE w.height
      x1 == IF growsLeft THEN rw.startWindowX + deltaX ELSE w.x
      y1 == IF growsUp THEN rw.startWindowY + deltaY ELSE w.y
      newX == Max(0, Min(x1, viewport.w - newWidth))
      newY == Max(TopBar, Min(y1, viewport.h - newHeight))
  IN [w EXCEPT !.x = newX, !.y = newY, !.width = newWidth,
               !.height = newHeight, !.isResizing = TRUE]

ResizedWindow(w, rw, clientX, clientY) ==
  LET deltaX == clientX - rw.startX
      deltaY == clientY - rw.startY
      h == rw.handle
      growsRight == h \in {"right", "bottom-right", "top-right"}
      growsLeft  == h \in {"left", "bottom-left", "top-left"}
      growsDown  == h \in {"bottom", "bottom-right", "bottom-left"}
      growsUp    == h \in {"top", "top-right", "top-left"}
      newWidth  == IF growsRight THEN Max(MinWidth, rw.startWidth + deltaX)
                   ELSE IF growsLeft
                        THEN Max(MinWidth, rw.startWidth - deltaX)
                        ELSE w.width
      newHeight == IF growsDown THEN Max(MinHeight, rw.startHeight + deltaY)
                   ELSE IF growsUp
                        THEN Max(MinHeight, rw.startHeight - deltaY)
                        ELSE w.height
      x1 == IF growsLeft
            THEN IF newWidth = MinWidth
                 THEN rw.startWindowX + rw.startWidth - MinWidth
                 ELSE rw.startWindowX + deltaX
            ELSE w.x
      y1 == IF growsUp
            THEN IF newHeight = MinHeight
                 THEN rw.startWindowY + rw.startHeight - MinHeight
                 ELSE rw.startWindowY + deltaY
            ELSE w.y
      newX == Max(0, Min(x1, viewport.w - newWidth))
      newY == Max(TopBar, Min(y1, viewport.h - newHeight))
  IN [w EXCEPT !.x = newX, !.y = newY, !.width = newWidth,
               !.height = newHeight, !.isResizing = TRUE]

\* mutant: the resize starts from the current geometry of the window, not
\* from the geometry at its start
handleWindowResizeIncremental(ws, rw, clientX, clientY) ==
  Map(windows, LAMBDA w :
    IF w.id # rw.windowId THEN w
    ELSE ResizedWindow(w, [rw EXCEPT !.startWidth = w.width,
                                     !.startHeight = w.height,
                                     !.startWindowX = w.x,
                                     !.startWindowY = w.y],
                       clientX, clientY))

\* the window list handed to setWindows; ws is the `windows` of the closure
handleWindowResize(ws, rw, clientX, clientY) ==
  Map(ws, LAMBDA w :
    IF w.id # rw.windowId THEN w ELSE ResizedWindow(w, rw, clientX, clientY))

\* ------------------------------------------------------------------------
\* mutant: the snap zones are shown near the top edge only
ShowZonesTopOnly(clientX, clientY) == clientY < SnapMargin

\* handleWindowMouseMove (lines 521-552)
ShowZones(clientX, clientY) ==
  \/ clientY < SnapMargin
  \/ clientX < SnapMargin
  \/ clientX > viewport.w - SnapMargin
  \/ clientY > viewport.h - SnapMargin

\* mutant: the drag moves maximized windows too
DraggedWindowsMaximized(ws, ref, clientX, clientY) ==
  LET deltaX == clientX - ref.startX
      deltaY == clientY - ref.startY
  IN Map(ws, LAMBDA w :
       IF w.id = ref.windowId
       THEN [w EXCEPT !.x = Max(0, w.x + deltaX),
                      !.y = Max(TopBar, w.y + deltaY),
                      !.snapped = NoSnap]
       ELSE w)

\* mutant: the dragged position is not clamped
DraggedWindowsNoClamp(ws, ref, clientX, clientY) ==
  LET deltaX == clientX - ref.startX
      deltaY == clientY - ref.startY
  IN Map(ws, LAMBDA w :
       IF w.id = ref.windowId /\ ~w.maximized
       THEN [w EXCEPT !.x = w.x + deltaX,
                      !.y = w.y + deltaY,
                      !.snapped = NoSnap]
       ELSE w)

\* mutant: the move is applied to every window that is not maximized
DraggedWindowsAll(ws, ref, clientX, clientY) ==
  LET deltaX == clientX - ref.startX
      deltaY == clientY - ref.startY
  IN Map(ws, LAMBDA w :
       IF ~w.maximized
       THEN [w EXCEPT !.x = Max(0, w.x + deltaX),
                      !.y = Max(TopBar, w.y + deltaY),
                      !.snapped = NoSnap]
       ELSE w)

DraggedWindows(ws, ref, clientX, clientY) ==
  LET deltaX == clientX - ref.startX
      deltaY == clientY - ref.startY
  IN Map(ws, LAMBDA w :
       IF w.id = ref.windowId /\ ~w.maximized
       THEN [w EXCEPT !.x = Max(0, w.x + deltaX),
                      !.y = Max(TopBar, w.y + deltaY),
                      !.snapped = NoSnap]
       ELSE w)

\* ------------------------------------------------------------------------
\* handleWindowMouseUp (lines 554-586)

\* mutant: the left and right edges are tested before the top and bottom
ReleaseZoneSidesFirst(x, y) ==
  IF x < SnapMargin THEN "left-half"
  ELSE IF x > viewport.w - SnapMargin THEN "right-half"
  ELSE IF y < SnapMargin
       THEN IF x < Half(viewport.w) THEN "top-left" ELSE "top-right"
       ELSE IF y > viewport.h - SnapMargin
            THEN IF x < Half(viewport.w) THEN "bottom-left"
                 ELSE "bottom-right"
            ELSE "none"

\* the zone of the release point, "none" when no branch of 561-577 is taken
ReleaseZone(x, y) ==
  IF y < SnapMargin
  THEN IF x < Half(viewport.w) THEN "top-left" ELSE "top-right"
  ELSE IF y > viewport.h - SnapMargin
       THEN IF x < Half(viewport.w) THEN "bottom-left" ELSE "bottom-right"
       ELSE IF x < SnapMargin THEN "left-half"
            ELSE IF x > viewport.w - SnapMargin THEN "right-half"
                 ELSE "none"

ClearResizing(ws) == Map(ws, LAMBDA w : [w EXCEPT !.isResizing = FALSE])

\* the setWindows calls of handleWindowMouseUp, in program order: the one of
\* snapWindow (line 489) when a zone is hit, then the one of line 585
MouseUpWrites(x, y) ==
  (IF dragRef.set /\ showSnapZones /\ ReleaseZone(x, y) # "none"
   THEN <<snapWindow(windows, dragRef.windowId, ReleaseZone(x, y))>>
   ELSE <<>>)
  \o <<ClearResizing(windows)>>

\* ------------------------------------------------------------------------
\* What is on screen (lines 1035-1106, 629-745)

\* windows.filter((w) => !w.minimized) are rendered
Rendered(i) == i \in DOMAIN windows /\ ~windows[i].minimized
\* resize handles are rendered when !(maximized || snapped)
HasHandles(i) ==
  Rendered(i) /\ ~windows[i].maximized /\ windows[i].snapped = NoSnap
InViewport(x, y) == x >= 0 /\ x < viewport.w /\ y >= 0 /\ y < viewport.h

\* a point of the title bar of window w
TitleBarPoint(w) == [x |-> w.x + GrabOffset, y |-> w.y + GrabOffset]

\* a point of the resize handle h of window w
HandlePoint(w, h) ==
  [x |-> IF h \in {"left", "top-left", "bottom-left"} THEN w.x
         ELSE IF h \in {"right", "top-right", "bottom-right"}
              THEN w.x + w.width - 1
              ELSE w.x + GrabOffset,
   y |-> IF h \in {"top", "top-left", "top-right"} THEN w.y
         ELSE IF h \in {"bottom", "bottom-left", "bottom-right"}
              THEN w.y + w.height - 1
              ELSE w.y + GrabOffset]

\* ------------------------------------------------------------------------
\* The launcher filter (lines 159-176, 991-993)

\* strings are sequences of characters
Upper == <<"A", "B", "C", "D", "E", "F", "G", "H", "I", "J", "K", "L", "M",
           "N", "O", "P", "Q", "R", "S", "T", "U", "V", "W", "X", "Y", "Z">>
Lower == <<"a", "b", "c", "d", "e", "f", "g", "h", "i", "j", "k", "l", "m",
           "n", "o", "p", "q", "r", "s", "t", "u", "v", "w", "x", "y", "z">>

\* the names of the ten entries of desktopApps, in the order of the array
appNames == <<"Terminal", "Files", "Settings", "Browser", "Code", "Music",
              "Photos", "Calculator", "Calendar", "Mail">>

\* app.name as a string
nameOf ==
  [Terminal   |-> <<"T", "e", "r", "m", "i", "n", "a", "l">>,
   Files      |-> <<"F", "i", "l", "e", "s">>,
   Settings   |-> <<"S", "e", "t", "t", "i", "n", "g", "s">>,
   Browser    |-> <<"B", "r", "o", "w", "s", "e", "r">>,
   Code       |-> <<"C", "o", "d", "e">>,
   Music      |-> <<"M", "u", "s", "i", "c">>,
   Photos     |-> <<"P", "h", "o", "t", "o", "s">>,
   Calculator |-> <<"C", "a", "l", "c", "u", "l", "a", "t", "o", "r">>,
   Calendar   |-> <<"C", "a", "l", "e", "n", "d", "a", "r">>,
   Mail       |-> <<"M", "a", "i", "l">>]

\* the values of the search input (e.target.value, line 982)
Queries ==
  { <<>>,
    <<"t", "e", "r", "m">>, <<"T", "E", "R", "M">>, <<"T", "e", "r", "m">>,
    <<"t", "e", "r", "m", "s">>,
    <<"c">>, <<"C", "A", "L">>, <<"c", "a", "l", "c">>,
    <<"s">>, <<"e", "r">>, <<"o", "t", "o">>, <<"M", "a", "i", "l">>,
    <<"m", "a", "i", "l", "s">>, <<"l", "i", "a", "m">>, <<"x">>, <<" ">> }

\* mutant: no case conversion
toLowerCaseIdentity(s) == s

\* String.prototype.toLowerCase, for strings of ASCII characters
toLowerCase(s) ==
  [i \in 1..Len(s) |->
     IF \E k \in 1..26 : Upper[k] = s[i]
     THEN Lower[CHOOSE k \in 1..26 : Upper[k] = s[i]]
     ELSE s[i]]

\* String.prototype.includes: q occurs in s at some position
includes(s, q) ==
  \E k \in 0..(Len(s) - Len(q)) : \A j \in 1..Len(q) : s[k + j] = q[j]

\* the entries shown in the launcher overlay for the query
\* (lines 991-993), by name
launcherEntries(query) ==
  SelectSeq(appNames,
            LAMBDA name : includes(toLowerCase(nameOf[name]),
                                   toLowerCase(query)))

\* ------------------------------------------------------------------------
\* Initial state (lines 96-121)
InitState ==
  /\ windows = <<>>
  /\ activeWindow = Null
  /\ searchOpen = FALSE
  /\ showSnapZones = FALSE
  /\ draggingWindow = Null
  /\ dragRef = NoDrag
  /\ resizingWindow = NoResize
  /\ resizeClosure = <<>>
  /\ now \in 0..MaxClock
  /\ ev = Ev("init", Null, "none", 0, 0)
  /\ gestures = 0
  /\ dockPosition = "bottom"
  /\ isDraggingDock = FALSE
  /\ dockDrag = FALSE
  /\ searchQuery = <<>>
  /\ selectedUser = NoUser
  /\ password = ""
  /\ onLogin = <<>>

Init == viewport \in Viewports /\ InitState

\* ------------------------------------------------------------------------
\* Events

\* click on a dock item (line 1252): openApp(app)
DockOpen(title) ==
  /\ \E t \in now..MaxClock, rx \in RandomOffsets, ry \in RandomOffsets :
       /\ openApp(title, t, rx, ry)
       /\ now' = t
  /\ ev' = Ev("dockOpen", Null, title, 0, 0)
  /\ UNCHANGED <<dockVars, searchQuery, loginVars>>
  /\ UNCHANGED <<gestures, viewport, showSnapZones, draggingWindow, dragRef,
                 resizingWindow, resizeClosure>>

\* click on the launcher button of the dock (line 1218)
OpenLauncher ==
  /\ searchOpen' = TRUE
  /\ ev' = Ev("openLauncher", Null, "none", 0, 0)
  /\ UNCHANGED <<dockVars, searchQuery, loginVars>>
  /\ UNCHANGED <<gestures, viewport, windows, activeWindow, showSnapZones,
                 draggingWindow, dragRef, resizingWindow, resizeClosure, now>>

\* input into the search field of the launcher overlay (lines 981-982)
SetSearchQuery(q) ==
  /\ searchOpen
  /\ searchQuery' = q
  /\ ev' = Ev("search", Null, "none", 0, 0)
  /\ UNCHANGED <<shellVars, dockVars, loginVars>>

\* click on the backdrop of the launcher (line 1350)
DismissLauncher ==
  /\ searchOpen
  /\ searchOpen' = FALSE
  /\ ev' = Ev("dismissLauncher", Null, "none", 0, 0)
  /\ UNCHANGED <<dockVars, searchQuery, loginVars>>
  /\ UNCHANGED <<gestures, viewport, windows, activeWindow, showSnapZones,
                 draggingWindow, dragRef, resizingWindow, resizeClosure, now>>

\* click on an entry of the launcher overlay (lines 956, 998): openApp(app)
LauncherSelect(title) ==
  /\ searchOpen
  /\ title \in Range(desktopApps)
  /\ title \in Range(launcherEntries(searchQuery))
  /\ \E t \in now..MaxClock, rx \in RandomOffsets, ry \in RandomOffsets :
       /\ openApp(title, t, rx, ry)
       /\ now' = t
  /\ ev' = Ev("launcherSelect", Null, title, 0, 0)
  /\ UNCHANGED <<dockVars, searchQuery, loginVars>>
  /\ UNCHANGED <<gestures, viewport, showSnapZones, draggingWindow, dragRef,
                 resizingWindow, resizeClosure>>

\* click on the dock item of a running app that is not a dock app
\* (lines 1297-1302)
DockRestore(i) ==
  /\ i \in DOMAIN windows
  /\ windows[i].title \notin Range(dockApps)
  /\ windows' = IF windows[i].minimized
                THEN Unminimize(windows, windows[i].id)
                ELSE windows
  /\ activeWindow' = windows[i].id
  /\ ev' = Ev("dockRestore", windows[i].id, "none", 0, 0)
  /\ UNCHANGED <<dockVars, searchQuery, loginVars>>
  /\ UNCHANGED <<gestures, viewport, searchOpen, showSnapZones, draggingWindow,
                 dragRef, resizingWindow, resizeClosure, now>>

\* mutant: closing the active window leaves the active pointer
CloseWindowKeepsActive(id) ==
  /\ windows' = closeWindow(windows, id)
  /\ ev' = Ev("close", id, "none", 0, 0)
  /\ UNCHANGED <<dockVars, searchQuery, loginVars>>
  /\ UNCHANGED <<gestures, viewport, activeWindow, searchOpen, showSnapZones,
                 draggingWindow, dragRef, resizingWindow, resizeClosure, now>>

\* closeWindow(id) (lines 397-402, button of line 1151)
CloseWindow(id) ==
  /\ windows' = closeWindow(windows, id)
  /\ activeWindow' = IF activeWindow = id THEN Null ELSE activeWindow
  /\ ev' = Ev("close", id, "none", 0, 0)
  /\ UNCHANGED <<dockVars, searchQuery, loginVars>>
  /\ UNCHANGED <<gestures, viewport, searchOpen, showSnapZones, draggingWindow,
                 dragRef, resizingWindow, resizeClosure, now>>

\* button of line 1133
MinimizeWindow(i) ==
  /\ Rendered(i)
  /\ windows' = minimizeWindow(windows, windows[i].id)
  /\ ev' = Ev("minimize", windows[i].id, "none", 0, 0)
  /\ UNCHANGED <<dockVars, searchQuery, loginVars>>
  /\ UNCHANGED <<gestures, viewport, activeWindow, searchOpen, showSnapZones,
                 draggingWindow, dragRef, resizingWindow, resizeClosure, now>>

\* button of line 1142
MaximizeWindow(i) ==
  /\ Rendered(i)
  /\ windows' = maximizeWindow(windows, windows[i].id)
  /\ ev' = Ev("maximize", windows[i].id, "none", 0, 0)
  /\ UNCHANGED <<dockVars, searchQuery, loginVars>>
  /\ UNCHANGED <<gestures, viewport, activeWindow, searchOpen, showSnapZones,
                 draggingWindow, dragRef, resizingWindow, resizeClosure, now>>

\* click on a snap zone overlay (lines 629-745):
\* draggingWindow && snapWindow(draggingWindow, zone)
SnapZoneClick(zone) ==
  /\ showSnapZones
  /\ draggingWindow # Null
  /\ windows' = snapWindow(windows, draggingWindow, zone)
  /\ showSnapZones' = FALSE
  /\ draggingWindow' = Null
  /\ ev' = Ev("snap", draggingWindow, zone, 0, 0)
  /\ UNCHANGED <<dockVars, searchQuery, loginVars>>
  /\ UNCHANGED <<gestures, viewport, activeWindow, searchOpen, dragRef, resizingWindow,
                 resizeClosure, now>>

\* mousedown on a window outside its controls and handles
\* (lines 508-519, 1065)
WindowMouseDown(i) ==
  /\ Rendered(i)
  /\ gestures < MaxGestures
  /\ gestures' = gestures + 1
  /\ LET p == TitleBarPoint(windows[i]) IN
     /\ InViewport(p.x, p.y)
     /\ dragRef' = [set |-> TRUE, windowId |-> windows[i].id,
                    startX |-> p.x, startY |-> p.y]
     /\ ev' = Ev("mouseDown", windows[i].id, "none", p.x, p.y)
  /\ activeWindow' = windows[i].id
  /\ draggingWindow' = windows[i].id
  /\ UNCHANGED <<dockVars, searchQuery, loginVars>>
  /\ UNCHANGED <<viewport, windows, searchOpen, showSnapZones, resizingWindow,
                 resizeClosure, now>>

\* mousedown on a resize handle (lines 347-366, 1072-1105); the mousemove
\* effect (lines 130-151) is run again and from now on calls the
\* handleWindowResize of this render, whose `windows` is the current list
StartWindowResize(i, handle) ==
  /\ HasHandles(i)
  /\ gestures < MaxGestures
  /\ gestures' = gestures + 1
  /\ LET w  == windows[FindFirst(windows, LAMBDA v : v.id = windows[i].id)]
         p  == HandlePoint(windows[i], handle)
     IN
     /\ InViewport(p.x, p.y)
     /\ resizingWindow' =
          [set |-> TRUE, windowId |-> windows[i].id, handle |-> handle,
           startX |-> p.x, startY |-> p.y,
           startWidth |-> w.width, startHeight |-> w.height,
           startWindowX |-> w.x, startWindowY |-> w.y]
     /\ ev' = Ev("resizeStart", windows[i].id, handle, p.x, p.y)
  /\ resizeClosure' = windows
  /\ activeWindow' = windows[i].id
  /\ UNCHANGED <<dockVars, searchQuery, loginVars>>
  /\ UNCHANGED <<viewport, windows, searchOpen, showSnapZones, draggingWindow,
                 dragRef, now>>

\* the setWindows calls of one mousemove event, in program order:
\* handleWindowMouseMove of the root element (line 597), then the window
\* listener of lines 131-138
MouseMoveWrites(x, y) ==
  (IF dragRef.set THEN <<DraggedWindows(windows, dragRef, x, y)>> ELSE <<>>)
  \o (IF resizingWindow.set
      THEN <<handleWindowResize(resizeClosure, resizingWindow, x, y)>>
      ELSE <<>>)

\* mutant: the baseline of the drag is not moved to the pointer
MouseMoveKeepsBaseline(x, y) ==
  /\ windows' = LastWrite(MouseMoveWrites(x, y), windows)
  /\ IF dragRef.set
     THEN /\ showSnapZones' = ShowZones(x, y)
          /\ dragRef' = dragRef
     ELSE UNCHANGED <<showSnapZones, dragRef>>
  /\ ev' = IF resizingWindow.set THEN Ev("mouseMove", Null, "none", x, y)
           ELSE Ev("mouseMove", Null, "none", 0, 0)
  /\ UNCHANGED <<dockVars, searchQuery, loginVars>>
  /\ UNCHANGED <<gestures, viewport, activeWindow, searchOpen, draggingWindow,
                 resizingWindow, resizeClosure, now>>

\* one mousemove event.  The pointer of a move of a drag is kept in dragRef;
\* the pointer of a move of a resize is written into ev.
MouseMove(x, y) ==
  /\ windows' = LastWrite(MouseMoveWrites(x, y), windows)
  /\ IF dragRef.set
     THEN /\ showSnapZones' = ShowZones(x, y)
          /\ dragRef' = [dragRef EXCEPT !.startX = x, !.startY = y]
     ELSE UNCHANGED <<showSnapZones, dragRef>>
  /\ ev' = IF resizingWindow.set THEN Ev("mouseMove", Null, "none", x, y)
           ELSE Ev("mouseMove", Null, "none", 0, 0)
  /\ UNCHANGED <<dockVars, searchQuery, loginVars>>
  /\ UNCHANGED <<gestures, viewport, activeWindow, searchOpen, draggingWindow,
                 resizingWindow, resizeClosure, now>>

\* one mouseup event: handleWindowMouseUp of the root element (line 598),
\* then the window listener of lines 140-142
MouseUp(x, y) ==
  /\ windows' = LastWrite(MouseUpWrites(x, y), windows)
  /\ dragRef' = NoDrag
  /\ showSnapZones' = FALSE
  /\ draggingWindow' = Null
  /\ resizingWindow' = NoResize
  /\ resizeClosure' = <<>>
  /\ ev' = Ev("mouseUp", IF dragRef.set THEN dragRef.windowId ELSE Null,
              IF dragRef.set /\ showSnapZones THEN ReleaseZone(x, y)
              ELSE "none", x, y)
  /\ UNCHANGED <<dockVars, searchQuery, loginVars>>
  /\ UNCHANGED <<gestures, viewport, activeWindow, searchOpen, now>>

\* ------------------------------------------------------------------------
\* The dock (lines 244-267, 1199-1204)

DockPositions == {"bottom", "top", "left", "right", "bottom-left",
                  "bottom-right", "top-left", "top-right"}

\* the release points of a dock drag (info.point)
DockXs == {5, DockMargin - 1, DockMargin, Half(viewport.w),
           viewport.w - DockMargin, viewport.w - DockMargin + 1}
DockYs == {5, DockMargin - 1, DockMargin, DockMargin + DockTopOffset - 1,
           DockMargin + DockTopOffset, Half(viewport.h),
           viewport.h - DockMargin, viewport.h - DockMargin + 1,
           viewport.h - 10}

\* mutant: the single edges are tested before the corners
handleDockDragEdgesFirst(x, y) ==
  LET isNearLeft   == x < DockMargin
      isNearRight  == x > viewport.w - DockMargin
      isNearTop    == y < DockMargin + DockTopOffset
      isNearBottom == y > viewport.h - DockMargin
  IN IF isNearLeft THEN "left"
     ELSE IF isNearRight THEN "right"
     ELSE IF isNearTop THEN "top"
     ELSE IF isNearLeft /\ isNearTop THEN "top-left"
     ELSE IF isNearRight /\ isNearTop THEN "top-right"
     ELSE IF isNearLeft /\ isNearBottom THEN "bottom-left"
     ELSE IF isNearRight /\ isNearBottom THEN "bottom-right"
     ELSE "bottom"

\* mutant: the top edge is tested with the margin of the other edges
handleDockDragTopMargin(x, y) ==
  LET isNearLeft   == x < DockMargin
      isNearRight  == x > viewport.w - DockMargin
      isNearTop    == y < DockMargin
      isNearBottom == y > viewport.h - DockMargin
  IN IF isNearLeft /\ isNearTop THEN "top-left"
     ELSE IF isNearRight /\ isNearTop THEN "top-right"
     ELSE IF isNearLeft /\ isNearBottom THEN "bottom-left"
     ELSE IF isNearRight /\ isNearBottom THEN "bottom-right"
     ELSE IF isNearLeft THEN "left"
     ELSE IF isNearRight THEN "right"
     ELSE IF isNearTop THEN "top"
     ELSE "bottom"

\* newPosition of handleDockDrag for the release point (x, y)
handleDockDrag(x, y) ==
  LET isNearLeft   == x < DockMargin
      isNearRight  == x > viewport.w - DockMargin
      isNearTop    == y < DockMargin + DockTopOffset
      isNearBottom == y > viewport.h - DockMargin
  IN IF isNearLeft /\ isNearTop THEN "top-left"
     ELSE IF isNearRight /\ isNearTop THEN "top-right"
     ELSE IF isNearLeft /\ isNearBottom THEN "bottom-left"
     ELSE IF isNearRight /\ isNearBottom THEN "bottom-right"
     ELSE IF isNearLeft THEN "left"
     ELSE IF isNearRight THEN "right"
     ELSE IF isNearTop THEN "top"
     ELSE "bottom"

\* mutant: the dock is moved when its drag starts
DockDragStartMoves ==
  /\ ~dockDrag
  /\ dockDrag' = TRUE
  /\ isDraggingDock' = TRUE
  /\ dockPosition' = "top"
  /\ ev' = Ev("dockDragStart", Null, "none", 0, 0)
  /\ UNCHANGED <<shellVars, searchQuery, loginVars>>

\* onDragStart of the dock (line 1202)
DockDragStart ==
  /\ ~dockDrag
  /\ dockDrag' = TRUE
  /\ isDraggingDock' = TRUE
  /\ ev' = Ev("dockDragStart", Null, "none", 0, 0)
  /\ UNCHANGED <<shellVars, dockPosition, searchQuery, loginVars>>

\* onDragEnd of the dock (line 1203): handleDockDrag(event, info) with
\* info.point = (x, y); isDraggingDock is not written
DockDragEnd(x, y) ==
  /\ dockDrag
  /\ dockDrag' = FALSE
  /\ dockPosition' = handleDockDrag(x, y)
  /\ ev' = Ev("dockDragEnd", Null, "none", x, y)
  /\ UNCHANGED <<shellVars, isDraggingDock, searchQuery, loginVars>>

\* the clock display (lines 154-157): setTime(new Date()) once a second
ClockTick ==
  /\ \E t \in now..MaxClock : now' = t
  /\ ev' = Ev("tick", Null, "none", 0, 0)
  /\ UNCHANGED <<viewport, windows, activeWindow, searchOpen, showSnapZones,
                 draggingWindow, dragRef, resizingWindow, resizeClosure,
                 gestures, dockVars, searchQuery, loginVars>>

\* ------------------------------------------------------------------------
\* The login screen (src/app/components/login-screen.tsx)

\* the users of lines 22-34, by username
users == <<"admin", "guest">>

\* the values of the password field (e.target.value, line 170)
Passwords == {"", "x", "secret"}

\* mutant: the password is not tested
handleLoginNoPassword(calls) ==
  IF selectedUser # NoUser THEN Append(calls, selectedUser) ELSE calls

\* handleLogin (lines 47-52): the calls of onLogin after the handler, from
\* the calls before it; "" is the only string that is not truthy
handleLogin(calls) ==
  IF selectedUser # NoUser /\ password # "" THEN Append(calls, selectedUser)
  ELSE calls

\* the effect of lines 41-45, run once after the first render and before
\* any event of the user is handled
SelectFirstUser ==
  /\ selectedUser = NoUser
  /\ Len(users) > 0
  /\ selectedUser' = users[1]
  /\ ev' = Ev("mount", Null, "none", 0, 0)
  /\ UNCHANGED <<shellVars, dockVars, searchQuery, password, onLogin>>

\* click on the button of a user (line 144)
SelectUser(u) ==
  /\ selectedUser # NoUser
  /\ selectedUser' = u
  /\ ev' = Ev("selectUser", Null, u, 0, 0)
  /\ UNCHANGED <<shellVars, dockVars, searchQuery, password, onLogin>>

\* input into the password field (line 170) of the form, which is rendered
\* when a user is selected (line 163)
SetPassword(p) ==
  /\ selectedUser # NoUser
  /\ password' = p
  /\ ev' = Ev("password", Null, "none", 0, 0)
  /\ UNCHANGED <<shellVars, dockVars, searchQuery, selectedUser, onLogin>>

\* a submit event of the form (line 164): handleLogin.  The disabled submit
\* button (line 188) keeps a click from submitting an empty password; the
\* handler is run for every submit event that reaches the form.
SubmitLogin ==
  /\ selectedUser # NoUser
  /\ Len(onLogin) < MaxLogins
  /\ onLogin' = handleLogin(onLogin)
  /\ ev' = Ev("submit", Null, "none", 0, 0)
  /\ UNCHANGED <<shellVars, dockVars, searchQuery, selectedUser, password>>

\* ------------------------------------------------------------------------
\* Specifications

\* every event of the shell
Next ==
  \/ \E title \in Range(dockApps) : DockOpen(title)
  \/ OpenLauncher
  \/ DismissLauncher
  \/ \E title \in Range(desktopApps) : LauncherSelect(title)
  \/ \E i \in DOMAIN windows : DockRestore(i)
  \/ \E id \in 0..MaxClock : CloseWindow(id)
  \/ \E i \in DOMAIN windows : MinimizeWindow(i)
  \/ \E i \in DOMAIN windows : MaximizeWindow(i)
  \/ \E zone \in SnapZones : SnapZoneClick(zone)
  \/ \E i \in DOMAIN windows : WindowMouseDown(i)
  \/ \E i \in DOMAIN windows, handle \in Handles : StartWindowResize(i, handle)
  \/ \E x \in PointerXs, y \in PointerYs : MouseMove(x, y)
  \/ \E x \in PointerXs, y \in PointerYs : MouseUp(x, y)
  \/ \E q \in Queries : SetSearchQuery(q)
  \/ ClockTick
  \/ DockDragStart
  \/ \E x \in DockXs, y \in DockYs : DockDragEnd(x, y)

Spec == Init /\ [][Next]_vars

\* the window list: dock, launcher and window buttons, several windows
NextShell ==
  \/ \E title \in Range(dockApps) : DockOpen(title)
  \/ OpenLauncher
  \/ DismissLauncher
  \/ \E title \in Range(desktopApps) : LauncherSelect(title)
  \/ \E i \in DOMAIN windows : DockRestore(i)
  \/ \E id \in 0..MaxClock : CloseWindow(id)
  \/ \E i \in DOMAIN windows : MinimizeWindow(i)
  \/ \E i \in DOMAIN windows : MaximizeWindow(i)

SpecShell == Init /\ [][NextShell]_vars

\* the pointer gestures on the windows opened from the dock, with the
\* clock at its last value
InitPointer == Init /\ now = MaxClock

NextPointer ==
  \/ \E title \in Range(dockApps) : DockOpen(title)
  \/ \E i \in DOMAIN windows : MaximizeWindow(i)
  \/ \E zone \in SnapZones : SnapZoneClick(zone)
  \/ \E i \in DOMAIN windows : WindowMouseDown(i)
  \/ \E i \in DOMAIN windows, handle \in Handles : StartWindowResize(i, handle)
  \/ \E x \in PointerXs, y \in PointerYs : MouseMove(x, y)
  \/ \E x \in PointerXs, y \in PointerYs : MouseUp(x, y)

SpecPointer == InitPointer /\ [][NextPointer]_vars

\* resize gestures only, with the clock at its last value
NextResize ==
  \/ \E title \in Range(dockApps) : DockOpen(title)
  \/ \E i \in DOMAIN windows, handle \in Handles : StartWindowResize(i, handle)
  \/ \E x \in PointerXs, y \in PointerYs : MouseMove(x, y)
  \/ \E x \in PointerXs, y \in PointerYs : MouseUp(x, y)

SpecResize == InitPointer /\ [][NextResize]_vars

\* resize gestures in a narrow viewport, where a new window reaches over
\* the right edge
InitNarrow == viewport \in NarrowViewports /\ InitState /\ now = MaxClock

SpecNarrow == InitNarrow /\ [][NextResize]_vars

\* the launcher: its query, the entries it shows and the windows opened from
\* it
NextLauncher ==
  \/ OpenLauncher
  \/ DismissLauncher
  \/ \E q \in Queries : SetSearchQuery(q)
  \/ \E title \in Range(desktopApps) : LauncherSelect(title)
  \/ \E id \in 0..MaxClock : CloseWindow(id)

SpecLauncher == InitPointer /\ [][NextLauncher]_vars

\* the login screen, mounted for the whole behaviour
NextLogin ==
  \/ SelectFirstUser
  \/ \E u \in Range(users) : SelectUser(u)
  \/ \E p \in Passwords : SetPassword(p)
  \/ SubmitLogin

SpecLogin == Init /\ [][NextLogin]_vars

\* the dock alone: drags of the dock released at the points of DockXs x DockYs
NextDock ==
  \/ DockDragStart
  \/ \E x \in DockXs, y \in DockYs : DockDragEnd(x, y)

SpecDock == Init /\ [][NextDock]_vars

\* the pointer positions of the desk: a corner and the centre of the viewport
DeskPoints == {[x |-> 10, y |-> 10],
               [x |-> Half(viewport.w), y |-> Half(viewport.h)]}

\* the resize handles grabbed on the desk
DeskHandles == {"bottom-right", "left"}

\* the desk: every kind of event of the shell on the dock app's window,
\* with the pointer at the positions of DeskPoints
NextDesk ==
  \/ \E title \in Range(dockApps) : DockOpen(title)
  \/ OpenLauncher
  \/ DismissLauncher
  \/ \E id \in 0..MaxClock : CloseWindow(id)
  \/ \E i \in DOMAIN windows : MinimizeWindow(i)
  \/ \E i \in DOMAIN windows : MaximizeWindow(i)
  \/ \E zone \in SnapZones : SnapZoneClick(zone)
  \/ \E i \in DOMAIN windows : WindowMouseDown(i)
  \/ \E i \in DOMAIN windows, handle \in DeskHandles : StartWindowResize(i, handle)
  \/ \E p \in DeskPoints : MouseMove(p.x, p.y)
  \/ \E p \in DeskPoints : MouseUp(p.x, p.y)
  \/ ClockTick
  \/ DockDragStart
  \/ \E p \in DeskPoints : DockDragEnd(p.x, p.y)

SpecDesk == InitPointer /\ [][NextDesk]_vars

\* the operations that set or clear the active window: open, close,
\* minimize, maximize, and the start of a drag and of a resize
NextActive ==
  \/ \E title \in Range(dockApps) : DockOpen(title)
  \/ OpenLauncher
  \/ LauncherSelect("Mail")
  \/ \E i \in DOMAIN windows : CloseWindow(windows[i].id)
  \/ \E i \in DOMAIN windows : MinimizeWindow(i)
  \/ \E i \in DOMAIN windows : MaximizeWindow(i)
  \/ \E i \in DOMAIN windows : WindowMouseDown(i)
  \/ \E i \in DOMAIN windows : StartWindowResize(i, "bottom-right")

\* the desktop of the large screen, the clock at one of its last two values
InitActive == Init /\ viewport.w = 1920 /\ now >= MaxClock - 1

SpecActive == InitActive /\ [][NextActive]_vars

\* dragging one of two windows: both apps can be opened, a window can be
\* snapped or maximized before it is dragged
NextDrag ==
  \/ \E title \in Range(dockApps) : DockOpen(title)
  \/ OpenLauncher
  \/ \E title \in Range(desktopApps) : LauncherSelect(title)
  \/ \E i \in DOMAIN windows : MaximizeWindow(i)
  \/ SnapZoneClick("left-half")
  \/ \E i \in DOMAIN windows : WindowMouseDown(i)
  \/ \E p \in DeskPoints : MouseMove(p.x, p.y)
  \/ \E p \in DeskPoints : MouseUp(p.x, p.y)

SpecDrag == InitActive /\ [][NextDrag]_vars

\* ------------------------------------------------------------------------
\* Properties

OpenOps == {"dockOpen", "launcherSelect"}

\* the snap-zone table of the specification, for a viewport of width vw and
\* height vh: W = vw, H = vh - 40
ZoneGeometry(zone, vw, vh) ==
  LET W == vw
      H == vh - 40
  IN CASE zone = "left-half"    -> <<0, 40, W \div 2, H>>
       [] zone = "right-half"   -> <<W \div 2, 40, W \div 2, H>>
       [] zone = "top-left"     -> <<0, 40, W \div 2, H \div 2>>
       [] zone = "top-right"    -> <<W \div 2, 40, W \div 2, H \div 2>>
       [] zone = "bottom-left"  -> <<0, 40 + H \div 2, W \div 2, H \div 2>>
       [] zone = "bottom-right" -> <<W \div 2, 40 + H \div 2, W \div 2, H \div 2>>
       [] zone = "maximize"     -> <<0, 40, W, H>>

Geometry(w) == <<w.x, w.y, w.width, w.height>>

\* C1: a non-maximized window that is dragged to within 50px of the top edge
\* in the left half of the screen, with the snap zones visible, and released
\* there has snap anchor top-left and geometry (0, 40, W/2, (H-40)/2) when
\* the pointer-up handler has finished; and a release classified to any zone
\* leaves the window with that zone's target geometry.
C1_ReleaseSnapsToZone ==
  [][ (ev'.op = "mouseUp" /\ dragRef.set /\ showSnapZones)
      => \A i \in DOMAIN windows :
           (windows[i].id = dragRef.windowId /\ ~windows[i].maximized)
           => /\ i \in DOMAIN windows'
              /\ (ev'.y < 50 /\ ev'.x < viewport.w \div 2)
                 => /\ windows'[i].snapped = "top-left"
                    /\ Geometry(windows'[i]) =
                         <<0, 40, viewport.w \div 2, (viewport.h - 40) \div 2>>
              /\ ev'.arg # "none"
                 => Geometry(windows'[i]) =
                      ZoneGeometry(ev'.arg, viewport.w, viewport.h) ]_vars

\* C2: every window has x >= 0 and y >= 40 after any sequence of drag
\* operations with any pointer positions.
C2_DragKeepsOnScreen ==
  \A i \in DOMAIN windows : windows[i].x >= 0 /\ windows[i].y >= 40

\* the dragged window has been moved to a pointer position at which both
\* clamps bind
C2_Witness ==
  /\ ev.op = "mouseMove"
  /\ dragRef.set
  /\ dragRef.startX = 10
  /\ dragRef.startY = 10
  /\ \E i \in DOMAIN windows :
       /\ windows[i].id = dragRef.windowId
       /\ ~windows[i].maximized
       /\ windows[i].x = 0
       /\ windows[i].y = 40

\* C3: every window has width >= 300 and height >= 200 after any sequence of
\* resize operations with any of the eight handles and any pointer positions.
C3_ResizeFloor ==
  \A i \in DOMAIN windows :
    windows[i].width >= 300 /\ windows[i].height >= 200

\* a window has been shrunk to both floors by a resize
C3_Witness ==
  /\ ev.op = "mouseMove"
  /\ resizingWindow.set
  /\ \E i \in DOMAIN windows :
       /\ windows[i].id = resizingWindow.windowId
       /\ windows[i].isResizing
       /\ windows[i].width = 300
       /\ windows[i].height = 200
       /\ resizingWindow.startWidth > 300
       /\ resizingWindow.startHeight > 200

\* C4: in every reachable state, whatever the viewport size and whatever
\* sequence of open, drag, resize, snap, maximize, minimize and close
\* operations led to it, every window has width >= 300 and height >= 200.
C4_SizeFloorAlways ==
  ~ \E w \in Range(windows) : w.width < 300 \/ w.height < 200

\* C5: in every reachable state, after any sequence of open, drag, resize,
\* snap and maximize operations, every window has y >= 40.
C5_BelowTopBar ==
  \A w \in Range(windows) : w.y >= 40

\* a resize with a top-side handle has pulled the top edge above the top bar
\* and the window was put back at y = 40
C5_Witness ==
  /\ ev.op = "mouseMove"
  /\ resizingWindow.set
  /\ resizingWindow.handle \in {"top", "top-left", "top-right"}
  /\ \E i \in DOMAIN windows :
       /\ windows[i].id = resizingWindow.windowId
       /\ windows[i].isResizing
       /\ windows[i].y = 40
       /\ windows[i].height >
            resizingWindow.startHeight + resizingWindow.startWindowY - 40

\* C6: in every reachable state no two windows of the list have the same
\* title.
C6_OneWindowPerTitle ==
  \A i, j \in DOMAIN windows :
    i # j => windows[i].title # windows[j].title

\* open() was called for an app whose window existed already (it is
\* maximized, a new window is not) while another window is open
C6_Witness ==
  /\ ev.op \in OpenOps
  /\ Len(windows) = 2
  /\ \E i \in DOMAIN windows :
       windows[i].title = ev.arg /\ windows[i].maximized

\* C7: open(app) for an app whose title matches an existing window does not
\* change the number of windows, makes that window the active one, clears
\* its minimized flag, and leaves the geometry, the maximized flag and the
\* snap anchor of every window unchanged.
C7_OpenExistingRaises ==
  [][ (ev'.op \in OpenOps /\ \E i \in DOMAIN windows : windows[i].title = ev'.arg)
      => /\ Len(windows') = Len(windows)
         /\ \E i \in DOMAIN windows :
              /\ windows[i].title = ev'.arg
              /\ activeWindow' = windows[i].id
              /\ ~windows'[i].minimized
         /\ \A j \in DOMAIN windows :
              /\ Geometry(windows'[j]) = Geometry(windows[j])
              /\ windows'[j].maximized = windows[j].maximized
              /\ windows'[j].snapped = windows[j].snapped
              /\ windows'[j].id = windows[j].id
              /\ windows'[j].title = windows[j].title ]_vars

\* open() was called for the app of a maximized (hence existing) window, which
\* is now active and not minimized, while another window is open
C7_Witness ==
  /\ ev.op \in OpenOps
  /\ Len(windows) = 2
  /\ \E i \in DOMAIN windows :
       /\ windows[i].title = ev.arg
       /\ windows[i].maximized
       /\ ~windows[i].minimized
       /\ activeWindow = windows[i].id
       /\ \E j \in DOMAIN windows : j # i /\ windows[j].minimized

\* C8: selecting an entry of the open launcher overlay leaves the overlay
\* closed, both when the app has no window yet and when a window with that
\* title exists.
C8_SelectDismissesLauncher ==
  ev.op = "launcherSelect" => ~searchOpen

\* C9: snap(id, zone) overwrites the geometry of the window with the zone's
\* target of the table, and snap(id, "maximize") also sets maximized.
C9_SnapGeometry ==
  ev.op = "snap"
  => \A w \in Range(windows) :
       w.id = ev.id
       => /\ Geometry(w) = ZoneGeometry(ev.arg, viewport.w, viewport.h)
          /\ ev.arg = "maximize" => w.maximized

\* a window has been snapped to the bottom-right quarter
C9_Witness ==
  /\ ev.op = "snap"
  /\ ev.arg = "bottom-right"
  /\ \E w \in Range(windows) : w.id = ev.id /\ w.snapped = "bottom-right"

\* C10: close(id) removes the windows with that id and keeps every other
\* window, unchanged and in the same order; the active pointer becomes none
\* if it was id and is unchanged otherwise; for an id that is not in the list
\* neither the list nor the active pointer changes.
C10_CloseRemovesOnlyId ==
  [][ ev'.op = "close"
      => LET id   == ev'.id
             keep == {i \in DOMAIN windows : windows[i].id # id}
             rank(i) == Cardinality({j \in keep : j <= i})
         IN /\ Len(windows') = Cardinality(keep)
            /\ \A i \in keep : windows'[rank(i)] = windows[i]
            /\ activeWindow' = IF activeWindow = id THEN Null ELSE activeWindow
            /\ (keep = DOMAIN windows)
               => (windows' = windows /\ activeWindow' = activeWindow) ]_vars

\* a window was closed while a window behind it in the list stays, and stays
\* the active window
C10_Witness ==
  /\ ev.op = "close"
  /\ Len(windows) = 1
  /\ windows[1].title = "Mail"
  /\ ev.id # windows[1].id
  /\ activeWindow = windows[1].id

\* C11: a maximized window never responds to a drag: the mousedown that
\* begins the drag, every mousemove of the drag and the mouseup that ends it,
\* also a mouseup at a point of a snap zone while the snap zones are shown,
\* leave its x, y, width, height and its maximized flag as they were.
C11_MaximizedIgnoresDrag ==
  [][ /\ ev'.op = "mouseDown" => windows' = windows
      /\ (ev'.op \in {"mouseMove", "mouseUp"} /\ dragRef.set
          /\ ~resizingWindow.set)
         => \A i \in DOMAIN windows :
              (windows[i].id = dragRef.windowId /\ windows[i].maximized)
              => /\ i \in DOMAIN windows'
                 /\ Geometry(windows'[i]) = Geometry(windows[i])
                 /\ windows'[i].maximized ]_vars

\* the drag of a maximized window has ended with a mouseup in a snap zone
\* while the snap zones were shown
C11_Witness ==
  /\ ev.op = "mouseUp"
  /\ ev.arg # "none"
  /\ \E w \in Range(windows) : w.id = ev.id /\ w.maximized

\* C12: after the mouseup that ends a window drag or a resize, dragRef,
\* draggingWindow and resizingWindow are none and the snap zones are hidden;
\* after the drag-end event that ends a dock drag, isDraggingDock is false.
C12_IdleAfterRelease ==
  /\ ev.op = "mouseUp"
     => /\ dragRef = NoDrag
        /\ draggingWindow = Null
        /\ resizingWindow = NoResize
        /\ ~showSnapZones
  /\ ev.op = "dockDragEnd" => ~isDraggingDock

\* C13: in every reachable state at most one of the three interactions is
\* in progress: the drag of a window (dragRef or draggingWindow is set), the
\* resize of a window (resizingWindow is set), the drag of the dock
\* (isDraggingDock is true).
C13_OneInteraction ==
  LET windowDrag   == dragRef.set \/ draggingWindow # Null
      windowResize == resizingWindow.set
      dockDragging == isDraggingDock
  IN /\ ~(windowDrag /\ windowResize)
     /\ ~(windowDrag /\ dockDragging)
     /\ ~(windowResize /\ dockDragging)

\* C14: the corners are tested before the single edges: a dock drag released
\* within 100px of two adjacent edges of the viewport puts the dock at the
\* corner of these edges, never at one of the edges; on the 1920x1080
\* viewport a release at (5, 5) gives top-left and a release at (960, 1070)
\* gives bottom.
C14_CornersFirst ==
  ev.op = "dockDragEnd"
  => LET nearLeft   == ev.x < 100
         nearRight  == viewport.w - ev.x < 100
         nearTop    == ev.y < 100
         nearBottom == viewport.h - ev.y < 100
     IN /\ (nearLeft /\ nearTop) => dockPosition = "top-left"
        /\ (nearRight /\ nearTop) => dockPosition = "top-right"
        /\ (nearLeft /\ nearBottom) => dockPosition = "bottom-left"
        /\ (nearRight /\ nearBottom) => dockPosition = "bottom-right"
        /\ (viewport = [w |-> 1920, h |-> 1080] /\ ev.x = 5 /\ ev.y = 5)
           => dockPosition = "top-left"
        /\ (viewport = [w |-> 1920, h |-> 1080] /\ ev.x = 960 /\ ev.y = 1070)
           => dockPosition = "bottom"

\* the dock was released in the bottom right corner of the 1920x1080
\* viewport, within 100px of the right and of the bottom edge
C14_Witness ==
  /\ ev.op = "dockDragEnd"
  /\ viewport = [w |-> 1920, h |-> 1080]
  /\ ev.x = 1821
  /\ ev.y = 1070
  /\ dockPosition = "bottom-right"

DockTops    == {"top", "top-left", "top-right"}
DockLefts   == {"left", "top-left", "bottom-left"}
DockRights  == {"right", "top-right", "bottom-right"}
DockBottomCorners == {"bottom-left", "bottom-right"}

\* C15 as stated: the margin test of the top edge is the 100px test of the
\* other edges, so a dock drag released 100px or more from the top edge
\* never puts the dock at top, top-left or top-right.
C15_TopMarginAsStated ==
  (ev.op = "dockDragEnd" /\ ev.y >= 100) => dockPosition \notin DockTops

\* C15, amended: the release point of a dock drag is near the left, right or
\* bottom edge exactly when it is less than 100px from that edge, and near
\* the top edge exactly when it is less than 164px (100 + 64) from it: the
\* dock is put at top, top-left or top-right exactly when the release is
\* less than 164px from the top edge, at a left anchor exactly when it is
\* less than 100px from the left edge, and at a right or a bottom corner
\* anchor only when it is less than 100px from the right or the bottom edge.
C15_MarginTests ==
  ev.op = "dockDragEnd"
  => LET nearLeft   == ev.x < 100
         nearRight  == viewport.w - ev.x < 100
         nearTop    == ev.y < 164
         nearBottom == viewport.h - ev.y < 100
     IN /\ dockPosition \in DockTops <=> nearTop
        /\ dockPosition \in DockLefts <=> nearLeft
        /\ dockPosition \in DockRights <=> (nearRight /\ ~nearLeft)
        /\ dockPosition \in DockBottomCorners
             <=> (nearBottom /\ ~nearTop /\ (nearLeft \/ nearRight))

\* a dock drag released 163px below the top edge, away from the left and
\* the right edge, has put the dock at top
C15_Witness ==
  /\ ev.op = "dockDragEnd"
  /\ ev.y = 163
  /\ ev.x = viewport.w \div 2
  /\ dockPosition = "top"

\* C16: the dock is at bottom initially, and dockPosition is changed only by
\* the event that completes a dock drag: opening, closing, minimizing,
\* maximizing and snapping a window, the events of a window drag and of a
\* window resize, opening and dismissing the launcher, the clock tick and
\* the start of a dock drag leave it unchanged.
C16_DockMovedOnlyByDockDrag ==
  /\ dockPosition = "bottom"
  /\ [][ /\ dockPosition' # dockPosition => ev'.op = "dockDragEnd"
         /\ ev'.op \in {"dockOpen", "close", "minimize", "maximize", "snap",
                        "mouseDown", "mouseMove", "mouseUp", "resizeStart",
                        "openLauncher", "dismissLauncher", "tick",
                        "dockDragStart"}
            => dockPosition' = dockPosition ]_vars

\* the dock was moved to the top left corner, and the drag of a window that
\* ended afterwards has left it there
C16_Witness ==
  /\ dockPosition = "top-left"
  /\ ev.op = "mouseUp"
  /\ ev.id # Null

\* two characters are the same letter in upper or lower case, or equal
SameLetter(a, b) ==
  a = b \/ \E k \in 1..26 : {a, b} \subseteq {Upper[k], Lower[k]}

\* q occurs in name when the case of the letters is ignored
ContainsIgnoringCase(name, q) ==
  \E k \in 0..(Len(name) - Len(q)) :
    \A j \in 1..Len(q) : SameLetter(name[k + j], q[j])

\* C17: for every query the launcher shows exactly the entries of the
\* ten-entry catalog whose name contains the query as a substring when the
\* case of the letters is ignored, in the order of the catalog; for the
\* query "term" it shows exactly the Terminal entry.
C17_LauncherFilter ==
  LET shown    == launcherEntries(searchQuery)
      Index(n) == CHOOSE i \in 1..Len(appNames) : appNames[i] = n
  IN /\ Len(appNames) = 10
     /\ \A i \in 1..Len(appNames) :
          appNames[i] \in Range(shown)
          <=> ContainsIgnoringCase(nameOf[appNames[i]], searchQuery)
     /\ \A i, j \in DOMAIN shown : i < j => Index(shown[i]) < Index(shown[j])
     /\ searchQuery = <<"t", "e", "r", "m">> => shown = <<"Terminal">>

\* the query "CAL" was typed: the launcher shows Calculator and Calendar,
\* whose names contain it in another case, in this order
C17_Witness ==
  /\ ev.op = "search"
  /\ searchQuery = <<"C", "A", "L">>
  /\ launcherEntries(searchQuery) = <<"Calculator", "Calendar">>

\* C18: onLogin is called only by a submit event that is handled while a
\* user is selected and the password is not empty, once, with the user that
\* is selected at that moment; a submit event with an empty password does
\* not call onLogin and changes nothing of the state.
C18_LoginNeedsUserAndPassword ==
  [][ /\ onLogin' # onLogin
         => /\ ev'.op = "submit"
            /\ selectedUser \in Range(users)
            /\ password # ""
            /\ onLogin' = Append(onLogin, selectedUser)
      /\ (ev'.op = "submit" /\ password = "")
         => UNCHANGED <<loginVars, shellVars, dockVars, searchQuery>> ]_vars

\* the guest was selected and logged in with a password; then the password
\* field was emptied and the form was submitted again, without a second
\* call of onLogin
C18_Witness ==
  /\ ev.op = "submit"
  /\ password = ""
  /\ selectedUser = "guest"
  /\ onLogin = <<"guest">>

\* C19: for one mounted login screen, once a user is selected and a password
\* is entered, onLogin is called exactly once, however many submit events
\* follow: it is never called a second time.
C19_LoginOnce ==
  Len(onLogin) <= 1

\* C20: the ids of the windows are unique: no two windows of the list have
\* the same id, for every sequence of openApp calls and every non-decreasing
\* sequence of clock values read when the windows are created.
C20_UniqueIds ==
  \A i, j \in DOMAIN windows : i # j => windows[i].id # windows[j].id

LeftHandles == {"left", "top-left", "bottom-left"}
TopHandles  == {"top", "top-left", "top-right"}
SizeHandles == {"right", "bottom", "bottom-right"}

\* C21: during a resize with a left-side handle the right edge x + width of
\* the window stays where it was at the start of the resize, and with a
\* top-side handle the bottom edge y + height stays where it was, for every
\* pointer position in the viewport, also when the width or the height is at
\* its floor of 300 or 200.
C21_OppositeEdgeFixed ==
  [][ (ev'.op = "mouseMove" /\ resizingWindow.set /\ ~dragRef.set)
      => \A i \in DOMAIN windows' :
           windows'[i].id = resizingWindow.windowId
           => /\ resizingWindow.handle \in LeftHandles
                 => windows'[i].x + windows'[i].width
                      = resizingWindow.startWindowX + resizingWindow.startWidth
              /\ resizingWindow.handle \in TopHandles
                 => windows'[i].y + windows'[i].height
                      = resizingWindow.startWindowY
                          + resizingWindow.startHeight ]_vars

\* C22: a resize with the right, bottom or bottom-right handle adjusts the
\* size only: after every pointer move of the resize the x and y of the
\* window are its x and y at the start of the resize.
C22_SizeHandlesKeepPosition ==
  [][ (ev'.op = "mouseMove" /\ resizingWindow.set /\ ~dragRef.set
       /\ resizingWindow.handle \in SizeHandles)
      => \A i \in DOMAIN windows' :
           windows'[i].id = resizingWindow.windowId
           => /\ windows'[i].x = resizingWindow.startWindowX
              /\ windows'[i].y = resizingWindow.startWindowY ]_vars

\* C23: after every pointer move of a resize the bounding box of the resized
\* window lies within the viewport: x >= 0, y >= 40, x + width <= the width
\* of the viewport and y + height <= the height of the viewport, for every
\* handle, start geometry and pointer position.
C23_ResizeInsideViewport ==
  [][ (ev'.op = "mouseMove" /\ resizingWindow.set /\ ~dragRef.set)
      => \A i \in DOMAIN windows' :
           windows'[i].id = resizingWindow.windowId
           => /\ windows'[i].x >= 0
              /\ windows'[i].y >= 40
              /\ windows'[i].x + windows'[i].width <= viewport.w
              /\ windows'[i].y + windows'[i].height <= viewport.h ]_vars

\* C24: when a drag ends while the snap zones are shown, the zone given to
\* snapWindow is chosen with the top and bottom edges first: y < 50 gives
\* top-left if x < W/2 and top-right otherwise; else y > H - 50 gives
\* bottom-left if x < W/2 and bottom-right otherwise; else x < 50 gives
\* left-half; else x > W - 50 gives right-half; else snapWindow is not called
\* and the window stays at its dragged position.  The release never chooses
\* the maximize zone.
C24_ReleaseClassification ==
  [][ (ev'.op = "mouseUp" /\ dragRef.set /\ showSnapZones)
      => LET x == ev'.x
             y == ev'.y
             W == viewport.w
             H == viewport.h
         IN /\ y < 50 => ev'.arg = IF 2 * x < W THEN "top-left"
                                   ELSE "top-right"
            /\ (y >= 50 /\ y > H - 50)
               => ev'.arg = IF 2 * x < W THEN "bottom-left"
                            ELSE "bottom-right"
            /\ (y >= 50 /\ y <= H - 50 /\ x < 50) => ev'.arg = "left-half"
            /\ (y >= 50 /\ y <= H - 50 /\ x >= 50 /\ x > W - 50)
               => ev'.arg = "right-half"
            /\ (y >= 50 /\ y <= H - 50 /\ x >= 50 /\ x <= W - 50)
               => /\ ev'.arg = "none"
                  /\ \A i \in DOMAIN windows :
                       /\ i \in DOMAIN windows'
                       /\ Geometry(windows'[i]) = Geometry(windows[i])
            /\ ev'.arg # "maximize" ]_vars

\* a drag was released in the corner where the top and the left edge meet,
\* with the snap zones shown: the zone is top-left, not left-half
C24_Witness ==
  /\ ev.op = "mouseUp"
  /\ ev.id # Null
  /\ ev.x < 50
  /\ ev.y < 50
  /\ ev.arg = "top-left"

\* C25: maximizeWindow(id) inverts the maximized flag of the window and
\* clears its snap anchor; when the window becomes maximized its geometry is
\* set to (0, 40, W, H - 40), and when it leaves the maximized state its x, y,
\* width and height are kept.  So two calls on a window that is not
\* maximized give maximized = false again and leave the geometry of the full
\* viewport, not the geometry before the first call.
C25_MaximizeToggles ==
  [][ ev'.op = "maximize"
      => /\ Len(windows') = Len(windows)
         /\ \A i \in DOMAIN windows :
              IF windows[i].id = ev'.id
              THEN /\ windows'[i].maximized = ~windows[i].maximized
                   /\ windows'[i].snapped = "none"
                   /\ windows'[i].maximized
                      => Geometry(windows'[i])
                           = <<0, 40, viewport.w, viewport.h - 40>>
                   /\ ~windows'[i].maximized
                      => Geometry(windows'[i]) = Geometry(windows[i])
              ELSE windows'[i] = windows[i] ]_vars

\* the maximize button was used on a window that was maximized: the window
\* is not maximized and not snapped, and has the geometry of the full
\* viewport
C25_Witness ==
  /\ ev.op = "maximize"
  /\ \E w \in Range(windows) :
       /\ w.id = ev.id
       /\ ~w.maximized
       /\ w.snapped = "none"
       /\ Geometry(w) = <<0, 40, viewport.w, viewport.h - 40>>

\* C26: showSnapZones is true only while a window drag is in progress: after
\* every pointer move of a drag it says whether the pointer is within 50px
\* of an edge of the viewport (y < 50 or x < 50 or x > W - 50 or y > H - 50),
\* a pointer move with no drag in progress does not change it, and it is
\* false in every state in which no window drag is in progress.
C26_SnapZonesOnlyWhileDragging ==
  /\ [](showSnapZones => dragRef.set)
  /\ [][ ev'.op = "mouseMove"
         => IF dragRef.set
            THEN LET x == dragRef'.startX
                     y == dragRef'.startY
                 IN showSnapZones' = (\/ y < 50
                                      \/ x < 50
                                      \/ x > viewport.w - 50
                                      \/ y > viewport.h - 50)
            ELSE showSnapZones' = showSnapZones ]_vars

\* the pointer of a drag was moved to the right edge, half way down the
\* viewport: the snap zones are shown
C26_Witness ==
  /\ ev.op = "mouseMove"
  /\ dragRef.set
  /\ dragRef.startX > viewport.w - 50
  /\ dragRef.startY >= 50
  /\ dragRef.startY <= viewport.h - 50
  /\ showSnapZones

\* C27: the drag of a window is incremental.  The mousedown that begins it
\* takes the pointer as the baseline and leaves the window where it is; every
\* pointer move of the drag adds (pointer - baseline) to the position of the
\* window, when it is not maximized and the clamps x >= 0 and y >= 40 do not
\* bind, and takes the pointer as the new baseline.  So the distance between
\* the window and the baseline is the same after every move, and after any
\* sequence of such moves the window is at its position at the mousedown
\* plus (last pointer - pointer at the mousedown): no pointer move is lost.
C27_DragIsIncremental ==
  [][ /\ ev'.op = "mouseDown"
         => /\ windows' = windows
            /\ dragRef'.startX = ev'.x
            /\ dragRef'.startY = ev'.y
      /\ (ev'.op = "mouseMove" /\ dragRef.set /\ ~resizingWindow.set)
         => LET deltaX == dragRef'.startX - dragRef.startX
                deltaY == dragRef'.startY - dragRef.startY
            IN \A i \in DOMAIN windows :
                 (/\ windows[i].id = dragRef.windowId
                  /\ ~windows[i].maximized
                  /\ windows[i].x + deltaX >= 0
                  /\ windows[i].y + deltaY >= 40)
                 => /\ i \in DOMAIN windows'
                    /\ windows'[i].x = windows[i].x + deltaX
                    /\ windows'[i].y = windows[i].y + deltaY
                    /\ windows'[i].x - dragRef'.startX
                         = windows[i].x - dragRef.startX
                    /\ windows'[i].y - dragRef'.startY
                         = windows[i].y - dragRef.startY ]_vars

\* a new window, opened at (150, 150) and grabbed GrabOffset px inside it,
\* was dragged to the right edge of the viewport: it is at its first
\* position plus the way of the pointer
C27_Witness ==
  /\ ev.op = "mouseMove"
  /\ dragRef.set
  /\ dragRef.startX = viewport.w - 10
  /\ \E w \in Range(windows) :
       /\ w.id = dragRef.windowId
       /\ ~w.maximized
       /\ w.x = 150 + (dragRef.startX - (150 + GrabOffset))
       /\ w.y = 150 + (dragRef.startY - (150 + GrabOffset))

\* a window that has the geometry of the snapshot taken by startWindowResize
SnapshotWindow(rw) ==
  [x |-> rw.startWindowX, y |-> rw.startWindowY, width |-> rw.startWidth,
   height |-> rw.startHeight, isResizing |-> FALSE]

\* C28: a resize is computed from the snapshot taken at its start, not from
\* the geometry the window has reached: after every pointer move of a resize
\* the geometry of the window is the one that the handle, the snapshot
\* (pointer, x, y, width, height) and the pointer of the move give, whatever
\* the moves before have made of the window.  So two pointer paths from the
\* same start to the same pointer give the same geometry.
C28_ResizeFromSnapshot ==
  [][ (ev'.op = "mouseMove" /\ resizingWindow.set)
      => \A i \in DOMAIN windows' :
           windows'[i].id = resizingWindow.windowId
           => Geometry(windows'[i])
                = Geometry(ResizedWindow(SnapshotWindow(resizingWindow),
                                         resizingWindow, ev'.x, ev'.y)) ]_vars

\* a pointer move of a resize with the top-left handle has made the window
\* smaller than it was at the start of the resize
C28_Witness ==
  /\ ev.op = "mouseMove"
  /\ resizingWindow.set
  /\ resizingWindow.handle = "top-left"
  /\ ev.x > resizingWindow.startX
  /\ \E w \in Range(windows) :
       /\ w.id = resizingWindow.windowId
       /\ w.isResizing
       /\ w.width < resizingWindow.startWidth

\* C29: in every state reached by open, close, minimize, maximize and the
\* start of a drag or of a resize, the active window is none or the id of a
\* window of the list.
C29_ActiveWindowInList ==
  activeWindow = Null \/ \E i \in DOMAIN windows : windows[i].id = activeWindow

\* the active window was closed while another window stays open: no window
\* is active
C29_Witness ==
  /\ ev.op = "close"
  /\ Len(windows) = 1
  /\ ev.id # windows[1].id
  /\ activeWindow = Null


\* C30: a pointer move of a drag changes only the dragged window's position
\* and snap anchor: a dragged window that is not maximized gets the snap
\* anchor none and keeps its width, height, minimized and maximized flags,
\* and every window with another id keeps its geometry, flags and anchor.
C30_DragChangesPositionOnly ==
  [][ (ev'.op = "mouseMove" /\ dragRef.set /\ ~resizingWindow.set)
      => /\ Len(windows') = Len(windows)
         /\ \A i \in DOMAIN windows :
              /\ (windows[i].id = dragRef.windowId /\ ~windows[i].maximized)
                 => /\ windows'[i].snapped = NoSnap
                    /\ windows'[i].width = windows[i].width
                    /\ windows'[i].height = windows[i].height
                    /\ windows'[i].minimized = windows[i].minimized
                    /\ windows'[i].maximized = windows[i].maximized
              /\ windows[i].id # dragRef.windowId
                 => windows'[i] = windows[i] ]_vars

\* a window snapped to the left half was dragged away: it has no anchor and
\* still the width of the half screen, and the other window is where it was
\* opened
C30_Witness ==
  /\ ev.op = "mouseMove"
  /\ dragRef.set
  /\ \E i, j \in DOMAIN windows :
       /\ windows[i].id = dragRef.windowId
       /\ ~windows[i].maximized
       /\ windows[i].snapped = NoSnap
       /\ windows[i].width = Half(viewport.w)
       /\ windows[i].x > 0
       /\ windows[j].id # dragRef.windowId
       /\ windows[j].x = 150
       /\ windows[j].y = 150
       /\ windows[j].width = DefaultWidth

====
